---- MODULE Spec2Model ----
(***************************************************************************)
(* Model of cloud/amazon/ecs_service.py: the ECS service module of Ansible. *)
(* One invocation of main() fetches the service, then creates, updates,    *)
(* deletes it or polls for its deletion, and ends in exit_json, fail_json  *)
(* or an uncaught exception.  The remote ECS control plane is a variable   *)
(* the invocation reads through describe_services and changes through      *)
(* create_service / update_service / delete_service.                       *)
(*                                                                         *)
(* Python values: an optional parameter is None == <<>> or Some(v) == <<v>>;*)
(* a str is a sequence of one-character strings where endswith is applied  *)
(* to it (ARNs and the service name), a TLA+ string elsewhere.             *)
(***************************************************************************)
EXTENDS Integers, Sequences, FiniteSets, TLC

VARIABLES
    params,      \* module.params and module.check_mode of the invocation
    remote,      \* the service as the ECS control plane holds it, or NoService
    response,    \* the last describe_services response
    existing,    \* the result of the last describe_service call
    pc,          \* position in main()
    i,           \* the loop variable of the poll loop (-1: not bound yet)
    results,     \* the results dict and how the invocation ended
    calls,       \* remote calls and sleeps of this invocation
    updateReq,   \* the keyword arguments of the last update_service call
    pass,        \* number of the invocation (a play may run the task again)
    prev,        \* what the previous invocation saw and how it ended
    envChanged   \* the remote changed other than by this module's calls

vars == <<params, remote, response, existing, pc, i, results, calls,
          updateReq, pass, prev, envChanged>>

----------------------------------------------------------------------------
(* Bounds *)

MaxRepeat == 3
MaxCount == 2
MaxPass == 2
MaxList == 2

(* CPython keeps one object for each int in -5..256 *)
SmallIntMin == -5
SmallIntMax == 256

----------------------------------------------------------------------------
(* Python values *)

None == <<>>

\* the loop variable before `for` binds it
Unbound == -1
Some(v) == <<v>>

\* str.endswith on sequences of characters
EndsWith(s, suffix) ==
    /\ Len(suffix) <= Len(s)
    /\ SubSeq(s, Len(s) - Len(suffix) + 1, Len(s)) = suffix

\* `x or d` of an optional int: None and 0 are falsy
OrZero(x) == IF x = None \/ x = Some(0) THEN 0 ELSE x[1]

\* `x or []` of an optional list: None and [] are falsy
OrEmptyList(x) == IF x = None \/ x = Some(<<>>) THEN <<>> ELSE x[1]

\* the outcomes of `a is b` on two ints: the same object inside the small-int
\* cache, implementation-defined outside it
IsOutcomes(a, b) ==
    IF a # b THEN {FALSE}
    ELSE IF a >= SmallIntMin /\ a <= SmallIntMax THEN {TRUE}
    ELSE {TRUE, FALSE}

----------------------------------------------------------------------------
(* Data *)

ServiceName == <<"s", "v">>
ArnPrefix == <<"a", "/">>
ServiceArn == ArnPrefix \o ServiceName

lbA == [loadBalancerName |-> "elbA", containerName |-> "web", containerPort |-> 80]
lbB == [loadBalancerName |-> "elbB", containerName |-> "web", containerPort |-> 80]

TaskDefs == {"td1", "td2"}
Statuses == {"ACTIVE", "DRAINING", "INACTIVE"}
RemoteLbLists == {<<>>, <<lbA, lbB>>}
DesiredLbLists == {<<>>, <<lbA, lbB>>, <<lbB, lbA>>}

NoService == [serviceArn |-> <<>>, status |-> "NONE", taskDefinition |-> "",
              desiredCount |-> 0, loadBalancers |-> <<>>]

Services ==
    [serviceArn : {ServiceArn}, status : Statuses, taskDefinition : TaskDefs,
     desiredCount : 0..MaxCount, loadBalancers : RemoteLbLists]

\* results of describe_service
Found(c) == [tag |-> "Found", svc |-> c, exc |-> ""]
NotFound == [tag |-> "None", svc |-> NoService, exc |-> ""]
Raise(e) == [tag |-> "Raise", svc |-> NoService, exc |-> e]

----------------------------------------------------------------------------
(* EcsServiceManager *)

RECURSIVE find_from(_, _, _)
find_from(arns, service_name, k) ==
    IF k > Len(arns) THEN 0
    ELSE IF EndsWith(arns[k], service_name) THEN k
    ELSE find_from(arns, service_name, k + 1)

\* find_in_array on the sequence of the entries' field_name values: the index
\* of the first entry whose field ends with service_name, 0 for None
find_in_array(arns, service_name) == find_from(arns, service_name, 1)

FailureArns(resp) == [k \in 1..Len(resp.failures) |-> resp.failures[k].arn]
ServiceArns(resp) == [k \in 1..Len(resp.services) |-> resp.services[k].serviceArn]

\* the tail of describe_service: scan the services, raise when not found
describe_services_part(resp, service_name) ==
    LET k == find_in_array(ServiceArns(resp), service_name)
    IN  IF Len(resp.services) > 0 /\ k # 0
        THEN Found(resp.services[k])
        ELSE Raise("StandardError")

\* variant: any failure other than MISSING raises, the services are not scanned
describe_service_no_fallthrough(resp, service_name) ==
    IF Len(resp.failures) > 0
    THEN LET k == find_in_array(FailureArns(resp), service_name)
         IN  IF k = 0 THEN Raise("TypeError")
             ELSE IF resp.failures[k].reason = "MISSING" THEN NotFound
             ELSE Raise("StandardError")
    ELSE describe_services_part(resp, service_name)

describe_service(resp, service_name) ==
    IF Len(resp.failures) > 0
    THEN LET k == find_in_array(FailureArns(resp), service_name)
         IN  IF k = 0 THEN Raise("TypeError")   \* c['reason'] with c None
             ELSE IF resp.failures[k].reason = "MISSING" THEN NotFound
             ELSE describe_services_part(resp, service_name)
    ELSE describe_services_part(resp, service_name)

\* variant: desired_count compared without `or 0`
is_matching_service_no_default(expected, exist) ==
    IF expected.task_definition # Some(exist.taskDefinition) THEN FALSE
    ELSE IF OrEmptyList(expected.load_balancers) # exist.loadBalancers THEN FALSE
    ELSE IF expected.desired_count # Some(exist.desiredCount) THEN FALSE
    ELSE TRUE

is_matching_service(expected, exist) ==
    IF expected.task_definition # Some(exist.taskDefinition) THEN FALSE
    ELSE IF OrEmptyList(expected.load_balancers) # exist.loadBalancers THEN FALSE
    ELSE IF OrZero(expected.desired_count) # exist.desiredCount THEN FALSE
    ELSE TRUE

\* variant: `if desired_count:` instead of `is not None`
update_service_keys_truthy(task_definition, desired_count) ==
    (IF task_definition # None THEN {"taskDefinition"} ELSE {})
    \cup (IF desired_count # None /\ desired_count # Some(0)
          THEN {"desiredCount"} ELSE {})

\* the keys update_service adds to ecs_args besides service and cluster
update_service_keys(task_definition, desired_count) ==
    (IF task_definition # None THEN {"taskDefinition"} ELSE {})
    \cup (IF desired_count # None THEN {"desiredCount"} ELSE {})

update_service_args(task_definition, desired_count) ==
    [taskDefinition |-> task_definition, desiredCount |-> desired_count,
     keys |-> update_service_keys(task_definition, desired_count)]

NoRequest == [taskDefinition |-> None, desiredCount |-> None, keys |-> {"none"}]

----------------------------------------------------------------------------
(* The ECS control plane, seen through boto3 *)

\* what describe_services answers for the service the control plane holds
RemoteDescribe(rem) ==
    IF rem = NoService
    THEN [failures |-> <<[arn |-> ServiceArn, reason |-> "MISSING"]>>,
          services |-> <<>>]
    ELSE [failures |-> <<>>, services |-> <<rem>>]

\* the service after an update_service request
ApplyUpdate(rem, req) ==
    [rem EXCEPT
       !.taskDefinition = IF "taskDefinition" \in req.keys
                          THEN req.taskDefinition[1] ELSE @,
       !.desiredCount = IF "desiredCount" \in req.keys
                        THEN req.desiredCount[1] ELSE @]

\* the service a create_service request makes
ApplyCreate(p) ==
    [serviceArn |-> ArnPrefix \o p.name, status |-> "ACTIVE",
     taskDefinition |-> p.task_definition[1],
     desiredCount |-> p.desired_count[1],
     loadBalancers |-> IF p.load_balancers = None THEN <<>>
                       ELSE p.load_balancers[1]]

CanUpdate(rem) == rem # NoService /\ rem.status = "ACTIVE"
CanCreate(rem) == rem = NoService \/ rem.status = "INACTIVE"
CanDelete(rem) == rem # NoService /\ rem.status # "INACTIVE"

----------------------------------------------------------------------------
(* main() *)

DefaultRepeat == 10
DefaultDelay == 10

\* delay is any int (type='int', no minimum): time.sleep raises on a negative one
DelayValues == {-1, 0, DefaultDelay}
BigRepeat == SmallIntMax + 2

\* repeat is any int (type='int', no minimum): 0 leaves the loop body unrun
RepeatValues == (0..MaxRepeat) \cup {BigRepeat}

OptTaskDefs == {None} \cup {Some(t) : t \in TaskDefs}
OptCounts == {None} \cup {Some(n) : n \in 0..MaxCount}
OptLbLists == {None} \cup {Some(l) : l \in DesiredLbLists}

PresentParams ==
    [state : {"present"}, name : {ServiceName}, task_definition : OptTaskDefs,
     load_balancers : OptLbLists, desired_count : OptCounts,
     delay : {DefaultDelay}, repeat : {DefaultRepeat}, check_mode : BOOLEAN]

AbsentParams ==
    [state : {"absent"}, name : {ServiceName}, task_definition : {None},
     load_balancers : {None}, desired_count : {None},
     delay : {DefaultDelay}, repeat : {DefaultRepeat}, check_mode : BOOLEAN]

DeletingParams ==
    [state : {"deleting"}, name : {ServiceName}, task_definition : {None},
     load_balancers : {None}, desired_count : {None},
     delay : DelayValues, repeat : RepeatValues, check_mode : BOOLEAN]

NoCalls == [create |-> 0, update |-> 0, delete |-> 0, describe |-> 0,
            poll |-> 0, sleep |-> 0]

Running == [changed |-> FALSE, outcome |-> "running", msg |-> ""]
NoPrev == [ran |-> FALSE, active |-> FALSE, outcome |-> "", changed |-> FALSE]
NoResponse == [failures |-> <<>>, services |-> <<>>]
Unfetched == [tag |-> "Unfetched", svc |-> NoService, exc |-> ""]

\* module.exit_json(**results), module.fail_json(msg=...), uncaught exception
exit_json(changed) == [changed |-> changed, outcome |-> "exit_json", msg |-> ""]
fail_json(msg) == [changed |-> FALSE, outcome |-> "fail_json", msg |-> msg]
crash(exc) == [changed |-> FALSE, outcome |-> "crash", msg |-> exc]

Init ==
    /\ params \in PresentParams \cup AbsentParams \cup DeletingParams
    /\ remote \in {NoService} \cup Services
    /\ response = NoResponse
    /\ existing = Unfetched
    /\ pc = "start"
    /\ i = Unbound
    /\ results = Running
    /\ calls = NoCalls
    /\ updateReq = NoRequest
    /\ pass = 1
    /\ prev = NoPrev
    /\ envChanged = FALSE

\* existing = service_mgr.describe_service(...) in its try/except
Describe ==
    /\ pc = "start"
    /\ \E apiOk \in BOOLEAN :
         LET resp == RemoteDescribe(remote)
             res == IF apiOk THEN describe_service(resp, params.name)
                    ELSE Raise("ClientError")
         IN  /\ response' = (IF apiOk THEN resp ELSE response)
             /\ existing' = res
             /\ IF res.tag = "Raise"
                THEN /\ results' = fail_json("DescribeFailed")
                     /\ pc' = "done"
                ELSE /\ results' = results
                     /\ pc' = params.state
    /\ calls' = [calls EXCEPT !.describe = @ + 1]
    /\ UNCHANGED <<params, remote, i, updateReq, pass, prev, envChanged>>

\* the classification main() computes in matching / update
classify(p, ex) ==
    IF ex.tag = "Found" /\ ex.svc.status = "ACTIVE"
    THEN IF is_matching_service(p, ex.svc) THEN "Matching" ELSE "UpdateNeeded"
    ELSE "CreateNeeded"

\* variant: check mode not consulted
may_mutate_always(p) == TRUE

\* `if not module.check_mode` before the mutating calls
may_mutate(p) == ~p.check_mode

\* variant: `if not desired_count` instead of `is None`
create_missing_falsy(p) ==
    IF p.desired_count = None \/ p.desired_count = Some(0)
    THEN "MissingDesiredCount"
    ELSE IF p.task_definition = None THEN "MissingTaskDefinition"
    ELSE ""

\* the two fail_json checks before create_service
create_missing(p) ==
    IF p.desired_count = None THEN "MissingDesiredCount"
    ELSE IF p.task_definition = None THEN "MissingTaskDefinition"
    ELSE ""

PresentMatching ==
    /\ pc = "present"
    /\ classify(params, existing) = "Matching"
    /\ results' = exit_json(FALSE)
    /\ pc' = "done"
    /\ UNCHANGED <<params, remote, response, existing, i, calls, updateReq,
                   pass, prev, envChanged>>

PresentCheckMode ==
    /\ pc = "present"
    /\ classify(params, existing) # "Matching"
    /\ ~may_mutate(params)
    /\ results' = exit_json(TRUE)
    /\ pc' = "done"
    /\ UNCHANGED <<params, remote, response, existing, i, calls, updateReq,
                   pass, prev, envChanged>>

PresentUpdate ==
    /\ pc = "present"
    /\ classify(params, existing) = "UpdateNeeded"
    /\ may_mutate(params)
    /\ LET req == update_service_args(params.task_definition,
                                      params.desired_count)
       IN  /\ updateReq' = req
           /\ calls' = [calls EXCEPT !.update = @ + 1]
           /\ \E ok \in {b \in BOOLEAN : b => CanUpdate(remote)} :
                IF ok
                THEN /\ remote' = ApplyUpdate(remote, req)
                     /\ results' = exit_json(TRUE)
                ELSE /\ remote' = remote
                     /\ results' = crash("ClientError")
    /\ pc' = "done"
    /\ UNCHANGED <<params, response, existing, i, pass, prev, envChanged>>

PresentCreateFail ==
    /\ pc = "present"
    /\ classify(params, existing) = "CreateNeeded"
    /\ may_mutate(params)
    /\ create_missing(params) # ""
    /\ results' = fail_json(create_missing(params))
    /\ pc' = "done"
    /\ UNCHANGED <<params, remote, response, existing, i, calls, updateReq,
                   pass, prev, envChanged>>

PresentCreate ==
    /\ pc = "present"
    /\ classify(params, existing) = "CreateNeeded"
    /\ may_mutate(params)
    /\ create_missing(params) = ""
    /\ calls' = [calls EXCEPT !.create = @ + 1]
    /\ \E ok \in {b \in BOOLEAN : b => CanCreate(remote)} :
         IF ok
         THEN /\ remote' = ApplyCreate(params)
              /\ results' = exit_json(TRUE)
         ELSE /\ remote' = remote
              /\ results' = crash("ClientError")
    /\ pc' = "done"
    /\ UNCHANGED <<params, response, existing, i, updateReq, pass, prev,
                   envChanged>>

\* variant: an INACTIVE service is deleted again
absent_action_no_inactive_check(p, ex) ==
    IF ex.tag # "Found" THEN "nothing"
    ELSE IF ~p.check_mode THEN "delete"
    ELSE "would_delete"

\* state == 'absent': what main() does with the fetched service
absent_action(p, ex) ==
    IF ex.tag # "Found" THEN "nothing"
    ELSE IF ex.svc.status = "INACTIVE" THEN "inactive"
    ELSE IF ~p.check_mode THEN "delete"
    ELSE "would_delete"

\* how ecs.delete_service can end: it returns, raises ClientError, or raises
\* another exception (a BotoCoreError such as EndpointConnectionError)
delete_outcomes(rem) ==
    (IF CanDelete(rem) THEN {"ok"} ELSE {}) \cup {"ClientError", "BotoCoreError"}

\* `except botocore.exceptions.ClientError, e: module.fail_json(msg=e.message)`:
\* only ClientError is caught, any other exception leaves main() uncaught
delete_failure(exc) ==
    IF exc = "ClientError" THEN fail_json("DeleteFailed") ELSE crash(exc)

AbsentNoDelete ==
    /\ pc = "absent"
    /\ absent_action(params, existing) # "delete"
    /\ results' = exit_json(absent_action(params, existing) = "would_delete")
    /\ pc' = "done"
    /\ UNCHANGED <<params, remote, response, existing, i, calls, updateReq,
                   pass, prev, envChanged>>

AbsentDelete ==
    /\ pc = "absent"
    /\ absent_action(params, existing) = "delete"
    /\ calls' = [calls EXCEPT !.delete = @ + 1]
    /\ \E out \in delete_outcomes(remote) :
         IF out = "ok"
         THEN /\ remote' = [remote EXCEPT !.status = "DRAINING"]
              /\ results' = exit_json(TRUE)
         ELSE /\ remote' = remote
              /\ results' = delete_failure(out)
    /\ pc' = "done"
    /\ UNCHANGED <<params, response, existing, i, updateReq, pass, prev,
                   envChanged>>

\* state == 'deleting', service not found at the first describe
DeletingNotFound ==
    /\ pc = "deleting"
    /\ existing.tag # "Found"
    /\ results' = fail_json("NotFound")
    /\ pc' = "done"
    /\ UNCHANGED <<params, remote, response, existing, i, calls, updateReq,
                   pass, prev, envChanged>>

\* time.sleep(delay) raises IOError (invalid argument) on a negative delay,
\* which main() does not catch
sleep_raises(delay) == delay < 0

\* time.sleep(delay) before the loop, then the first `for i in range(repeat)`
SleepFirst ==
    /\ pc = "deleting"
    /\ existing.tag = "Found"
    /\ IF sleep_raises(params.delay)
       THEN /\ results' = crash("IOError")
            /\ calls' = calls
            /\ i' = i
            /\ pc' = "done"
       ELSE /\ results' = results
            /\ calls' = [calls EXCEPT !.sleep = @ + 1]
            /\ IF params.repeat >= 1           \* range(repeat) is not empty
               THEN i' = 0 /\ pc' = "poll_fetch"
               ELSE i' = Unbound /\ pc' = "after_loop"
    /\ UNCHANGED <<params, remote, response, existing, updateReq, pass, prev,
                   envChanged>>

\* the loop body up to the break: describe, read the status
PollFetch ==
    /\ pc = "poll_fetch"
    /\ \E apiOk \in BOOLEAN :
         LET resp == RemoteDescribe(remote)
             res == IF apiOk THEN describe_service(resp, params.name)
                    ELSE Raise("ClientError")
         IN  /\ response' = (IF apiOk THEN resp ELSE response)
             /\ existing' = (IF res.tag = "Raise" THEN existing ELSE res)
             /\ IF res.tag = "Raise"
                THEN results' = crash(res.exc) /\ pc' = "done"
                ELSE IF res.tag = "None"            \* None['status']
                THEN results' = crash("TypeError") /\ pc' = "done"
                ELSE IF res.svc.status = "INACTIVE"
                THEN results' = [results EXCEPT !.changed = TRUE]
                     /\ pc' = "after_loop"
                ELSE results' = results /\ pc' = "poll_sleep"
    /\ calls' = [calls EXCEPT !.describe = @ + 1, !.poll = @ + 1]
    /\ UNCHANGED <<params, remote, i, updateReq, pass, prev, envChanged>>

\* time.sleep(delay) at the end of the body, then the next `for` step
PollSleep ==
    /\ pc = "poll_sleep"
    /\ IF sleep_raises(params.delay)
       THEN /\ results' = crash("IOError")
            /\ calls' = calls
            /\ i' = i
            /\ pc' = "done"
       ELSE /\ results' = results
            /\ calls' = [calls EXCEPT !.sleep = @ + 1]
            /\ IF i + 1 < params.repeat
               THEN i' = i + 1 /\ pc' = "poll_fetch"
               ELSE i' = i /\ pc' = "after_loop"
    /\ UNCHANGED <<params, remote, response, existing, updateReq, pass, prev,
                   envChanged>>

\* `if i is repeat-1: fail_json(...)`, else exit_json(**results)
loop_exhausted(iv, repeat) == IsOutcomes(iv, repeat - 1)

AfterLoop ==
    /\ pc = "after_loop"
    /\ IF i = Unbound                         \* the loop never bound i
       THEN results' = crash("UnboundLocalError")
       ELSE \E same \in loop_exhausted(i, params.repeat) :
              results' = IF same THEN fail_json("TimedOut")
                         ELSE exit_json(results.changed)
    /\ pc' = "done"
    /\ UNCHANGED <<params, remote, response, existing, i, calls, updateReq,
                   pass, prev, envChanged>>

\* the play runs the same task again
Rerun ==
    /\ pc = "done"
    /\ pass < MaxPass
    /\ pass' = pass + 1
    /\ prev' = [ran |-> TRUE,
                active |-> existing.tag = "Found" /\ existing.svc.status = "ACTIVE",
                outcome |-> results.outcome, changed |-> results.changed]
    /\ pc' = "start"
    /\ i' = Unbound
    /\ results' = Running
    /\ calls' = NoCalls
    /\ updateReq' = NoRequest
    /\ existing' = Unfetched
    /\ response' = NoResponse
    /\ envChanged' = FALSE
    /\ UNCHANGED <<params, remote>>

\* the control plane retires the service: ACTIVE -> DRAINING -> INACTIVE -> gone
RemoteRetire ==
    /\ pc \notin {"done", "describe_only", "described"}
    /\ remote # NoService
    /\ remote' = IF remote.status = "ACTIVE" THEN [remote EXCEPT !.status = "DRAINING"]
                 ELSE IF remote.status = "DRAINING" THEN [remote EXCEPT !.status = "INACTIVE"]
                 ELSE NoService
    /\ envChanged' = TRUE
    /\ UNCHANGED <<params, response, existing, pc, i, results, calls,
                   updateReq, pass, prev>>

Next ==
    \/ Describe
    \/ PresentMatching
    \/ PresentCheckMode
    \/ PresentUpdate
    \/ PresentCreateFail
    \/ PresentCreate
    \/ AbsentNoDelete
    \/ AbsentDelete
    \/ DeletingNotFound
    \/ SleepFirst
    \/ PollFetch
    \/ PollSleep
    \/ AfterLoop
    \/ Rerun
    \/ RemoteRetire

Spec == Init /\ [][Next]_vars

----------------------------------------------------------------------------
(* describe_service on every response within the bounds *)

Names == {ServiceName, <<"v">>}
Arns == {ServiceArn, <<"a", "/", "x">>}
Reasons == {"MISSING", "OTHER"}

SeqsUpTo(S, n) == UNION {[1..m -> S] : m \in 0..n}

FailureEntries == [arn : Arns, reason : Reasons]
ServiceEntries ==
    [serviceArn : Arns, status : {"ACTIVE"}, taskDefinition : TaskDefs,
     desiredCount : {1}, loadBalancers : {<<>>}]

Responses ==
    [failures : SeqsUpTo(FailureEntries, MaxList),
     services : SeqsUpTo(ServiceEntries, MaxList)]

InitDescribe ==
    /\ params \in [state : {"present"}, name : Names, task_definition : {None},
                   load_balancers : {None}, desired_count : {None},
                   delay : {DefaultDelay}, repeat : {DefaultRepeat},
                   check_mode : {FALSE}]
    /\ remote = NoService
    /\ response \in Responses
    /\ existing = Unfetched
    /\ pc = "describe_only"
    /\ i = Unbound
    /\ results = Running
    /\ calls = NoCalls
    /\ updateReq = NoRequest
    /\ pass = 1
    /\ prev = NoPrev
    /\ envChanged = FALSE

DescribeOnly ==
    /\ pc = "describe_only"
    /\ existing' = describe_service(response, params.name)
    /\ calls' = [calls EXCEPT !.describe = @ + 1]
    /\ pc' = "described"
    /\ UNCHANGED <<params, remote, response, i, results, updateReq, pass,
                   prev, envChanged>>

NextDescribe == DescribeOnly

SpecDescribe == InitDescribe /\ [][NextDescribe]_vars

----------------------------------------------------------------------------
(* Properties *)

Done == pc = "done"
MutatingCalls == calls.create + calls.update + calls.delete
Fetched == existing.tag \in {"Found", "None"}
FoundWith(status) == existing.tag = "Found" /\ existing.svc.status = status
FoundNot(status) == existing.tag = "Found" /\ existing.svc.status # status

TdDiffers == params.task_definition # Some(existing.svc.taskDefinition)
CountDiffers ==
    (IF params.desired_count = None THEN 0 ELSE params.desired_count[1])
        # existing.svc.desiredCount
LbsDiffer ==
    (IF params.load_balancers = None THEN <<>> ELSE params.load_balancers[1])
        # existing.svc.loadBalancers

\* C1: in mode present, when the fetched service is ACTIVE and its
\* taskDefinition, loadBalancers and desiredCount equal the desired
\* task_definition, load_balancers (or []) and desired_count (or 0), the
\* invocation ends with changed=false and no create, update or delete call,
\* in check mode or not.
C1_MatchingIsNoOp ==
    (/\ Done
     /\ params.state = "present"
     /\ FoundWith("ACTIVE")
     /\ ~TdDiffers /\ ~LbsDiffer /\ ~CountDiffers)
    => (/\ results.outcome = "exit_json"
        /\ ~results.changed
        /\ MutatingCalls = 0)

C1_Witness ==
    /\ Done
    /\ params.state = "present"
    /\ FoundWith("ACTIVE")
    /\ ~TdDiffers /\ ~LbsDiffer /\ ~CountDiffers
    /\ params.desired_count = None
    /\ params.load_balancers = None
    /\ ~params.check_mode
    /\ results = exit_json(FALSE)

C2_Case ==
    /\ Done
    /\ params.state = "present"
    /\ ~params.check_mode
    /\ FoundWith("ACTIVE")
    /\ ~LbsDiffer
    /\ TdDiffers # CountDiffers

DifferingKeys ==
    (IF TdDiffers THEN {"taskDefinition"} ELSE {})
    \cup (IF CountDiffers THEN {"desiredCount"} ELSE {})

ProvidedKeys ==
    (IF params.task_definition = None THEN {} ELSE {"taskDefinition"})
    \cup (IF params.desired_count = None THEN {} ELSE {"desiredCount"})

\* C2 as stated: when desired and ACTIVE service differ in exactly one of
\* task_definition and desired_count, one update call is issued, no create or
\* delete, and the request carries only the differing field.
C2_OnlyDifferingFields ==
    C2_Case => (/\ calls.update = 1 /\ calls.create = 0 /\ calls.delete = 0
                /\ updateReq.keys = DifferingKeys)

\* C2 amended: in that case one update call is issued, no create or delete,
\* and the request carries exactly the fields of task_definition and
\* desired_count the DesiredSpec provides, with the desired values, whether
\* or not they differ from the remote values.
C2_ProvidedFields ==
    C2_Case => (/\ calls.update = 1 /\ calls.create = 0 /\ calls.delete = 0
                /\ updateReq.keys = ProvidedKeys
                /\ updateReq.taskDefinition = params.task_definition
                /\ updateReq.desiredCount = params.desired_count)

C2_Witness ==
    /\ C2_Case
    /\ TdDiffers
    /\ params.desired_count = Some(0)
    /\ updateReq.keys = {"taskDefinition", "desiredCount"}
    /\ results = exit_json(TRUE)

PollEnded ==
    /\ Done
    /\ params.state = "deleting"
    /\ calls.poll >= 1
    /\ results.outcome # "crash"

\* C3: in mode deleting on an existing service, when the k-th poll fetch
\* (1 <= k <= repeat) is the first to observe INACTIVE, the invocation ends
\* in success with changed=true after k sleeps and k poll fetches, never in
\* TimedOut.
C3_InactiveSucceeds ==
    (PollEnded /\ FoundWith("INACTIVE"))
    => (/\ results = exit_json(TRUE)
        /\ calls.sleep = calls.poll)

\* C4: in mode deleting on an existing service, when no poll fetch observes
\* INACTIVE (and none fails), the invocation ends in the TimedOut failure
\* after exactly repeat poll fetches.
C4_ExhaustedTimesOut ==
    (PollEnded /\ FoundNot("INACTIVE"))
    => (/\ results = fail_json("TimedOut")
        /\ calls.poll = params.repeat)

\* C5: in mode deleting, at the end of the run the number of sleeps equals
\* the number of poll fetches and does not exceed repeat, on the success
\* path and the TimedOut path alike.
C5_SleepsEqualPolls ==
    (PollEnded /\ results.outcome \in {"exit_json", "fail_json"})
    => (calls.sleep = calls.poll /\ calls.sleep <= params.repeat)

\* C6: in check mode no create, update or delete call is issued in any mode;
\* present with UpdateNeeded or CreateNeeded, and absent on a found service
\* that is not INACTIVE, still end with changed=true.
C6_CheckModeNoMutation ==
    params.check_mode =>
      (/\ MutatingCalls = 0
       /\ (Done /\ Fetched /\ params.state = "present"
           /\ classify(params, existing) \in {"UpdateNeeded", "CreateNeeded"})
          => results = exit_json(TRUE)
       /\ (Done /\ params.state = "absent" /\ FoundNot("INACTIVE"))
          => results = exit_json(TRUE))

C6_Witness ==
    /\ params.check_mode
    /\ Done
    /\ params.state = "present"
    /\ FoundWith("ACTIVE")
    /\ TdDiffers
    /\ results = exit_json(TRUE)
    /\ remote = existing.svc

C7_Case ==
    /\ Done
    /\ params.state = "present"
    /\ Fetched
    /\ ~FoundWith("ACTIVE")

MissingField == params.desired_count = None \/ params.task_definition = None

\* C7 as stated: present with CreateNeeded and desired_count or
\* task_definition unset fails with MissingRequiredField and no mutating
\* call; desired_count 0 counts as set.
C7_MissingFieldFails ==
    /\ (C7_Case /\ MissingField)
       => (/\ results.outcome = "fail_json"
           /\ results.msg \in {"MissingDesiredCount", "MissingTaskDefinition"}
           /\ MutatingCalls = 0)
    /\ (C7_Case /\ ~params.check_mode /\ ~MissingField)
       => (results.outcome # "fail_json" /\ calls.create = 1)

\* C7 amended: the same, for invocations that are not in check mode (in
\* check mode the invocation reports changed=true without checking the
\* fields).
C7_MissingFieldFailsUnlessCheckMode ==
    /\ (C7_Case /\ ~params.check_mode /\ MissingField)
       => (/\ results.outcome = "fail_json"
           /\ results.msg \in {"MissingDesiredCount", "MissingTaskDefinition"}
           /\ MutatingCalls = 0)
    /\ (C7_Case /\ ~params.check_mode /\ ~MissingField)
       => (results.outcome # "fail_json" /\ calls.create = 1)

C7_Witness ==
    /\ C7_Case
    /\ ~params.check_mode
    /\ params.desired_count = None
    /\ params.task_definition # None
    /\ results = fail_json("MissingDesiredCount")

C7_WitnessZero ==
    /\ C7_Case
    /\ ~params.check_mode
    /\ params.desired_count = Some(0)
    /\ calls.create = 1
    /\ results = exit_json(TRUE)

Described == pc = "described"
FailureFor(k) == EndsWith(response.failures[k].arn, params.name)
ServiceFor(k) == EndsWith(response.services[k].serviceArn, params.name)
FirstFailureFor(k) == FailureFor(k) /\ \A j \in 1..(k - 1) : ~FailureFor(j)

\* C8 as stated: a describe response whose failures list has an entry for
\* the requested service with a reason other than MISSING gives the error
\* UnknownServiceState, never NotFound nor Found, whatever its services list.
C8_OtherFailureIsError ==
    (/\ Described
     /\ \E k \in 1..Len(response.failures) :
          FailureFor(k) /\ response.failures[k].reason # "MISSING")
    => existing = Raise("StandardError")

\* C8 amended: when the first failures entry for the requested service
\* (matched by suffix) has a reason other than MISSING, the result is never
\* NotFound: it is Found with the first services entry whose serviceArn ends
\* with the requested name when there is one, and the error
\* UnknownServiceState when there is none.
C8_OtherFailureNeverNotFound ==
    (/\ Described
     /\ \E k \in 1..Len(response.failures) :
          FirstFailureFor(k) /\ response.failures[k].reason # "MISSING")
    => (/\ existing.tag # "None"
        /\ (\E m \in 1..Len(response.services) : ServiceFor(m))
           => \E m \in 1..Len(response.services) :
                /\ ServiceFor(m)
                /\ \A j \in 1..(m - 1) : ~ServiceFor(j)
                /\ existing = Found(response.services[m])
        /\ (\A m \in 1..Len(response.services) : ~ServiceFor(m))
           => existing = Raise("StandardError"))

C8_Witness ==
    /\ Described
    /\ Len(response.failures) = 2
    /\ ~FailureFor(1)
    /\ FailureFor(2) /\ response.failures[2].reason = "OTHER"
    /\ params.name = <<"v">>
    /\ Len(response.services) = 2
    /\ ~ServiceFor(1) /\ ServiceFor(2)
    /\ existing = Found(response.services[2])

\* C9: in mode present, after a pass that is not in check mode on an ACTIVE
\* service and whose update the remote applied, a second pass with the same
\* DesiredSpec (nothing else having changed the remote) reports
\* changed=false and issues no create, update or delete call.
C9_SecondPassNoOp ==
    (/\ Done
     /\ pass = 2
     /\ params.state = "present"
     /\ ~params.check_mode
     /\ prev.active
     /\ prev.outcome = "exit_json"
     /\ ~envChanged
     /\ results.outcome = "exit_json")
    => (~results.changed /\ MutatingCalls = 0)

AbsentCase == Done /\ params.state = "absent" /\ ~params.check_mode /\ Fetched

\* C10 as stated: in mode absent, not in check mode, the result has
\* changed=true exactly when the first describe found the service with a
\* status other than INACTIVE, and exactly then one delete call is issued;
\* no create or update call is issued.
C10_ChangedIffFoundActive ==
    AbsentCase =>
      (/\ calls.create = 0 /\ calls.update = 0
       /\ calls.delete = (IF FoundNot("INACTIVE") THEN 1 ELSE 0)
       /\ results.changed <=> FoundNot("INACTIVE"))

\* C10 amended: in mode absent, not in check mode, one delete call is issued
\* exactly when the first describe found the service with a status other
\* than INACTIVE; the result has changed=true exactly when that call was
\* issued and returned.  When the call raises, the invocation ends without
\* changed=true: in fail_json (DeleteFailed) for ClientError, uncaught for
\* any other exception.  When the service is not found or INACTIVE the
\* result is changed=false.  No create or update call is issued.
C10_AbsentDeletesOnce ==
    AbsentCase =>
      (/\ calls.create = 0 /\ calls.update = 0
       /\ calls.delete = (IF FoundNot("INACTIVE") THEN 1 ELSE 0)
       /\ results.changed <=> (FoundNot("INACTIVE") /\ results.outcome = "exit_json")
       /\ ~FoundNot("INACTIVE") => results = exit_json(FALSE)
       /\ results.outcome \in {"exit_json", "fail_json", "crash"}
       /\ (results.outcome = "fail_json") => results = fail_json("DeleteFailed")
       /\ (results.outcome = "crash") => (calls.delete = 1 /\ results.msg # "ClientError"))

C10_Witness ==
    /\ AbsentCase
    /\ FoundWith("DRAINING")
    /\ calls.delete = 1
    /\ results = exit_json(TRUE)

====
